---------------------------- MODULE Spec2Model ----------------------------
(***************************************************************************)
(* A model of osu-trainer (src/main.py): the .osu parser                   *)
(* convert_file_to_dict, the rate transform speedup_osu_file and the       *)
(* serializer convert_dict_to_file.                                        *)
(*                                                                         *)
(* Strings.  A Python str is a sequence of symbols.  Every character the   *)
(* code inspects on its own (separator characters, digits, sign, dot,      *)
(* slash, blank, line feed) is one symbol; a run of other characters that  *)
(* the code only copies or compares as a whole (a header, a key, a word)   *)
(* is one symbol too.  Strings the code slices by position (the audio      *)
(* file name) are spelled one character per symbol.                        *)
(*                                                                         *)
(* Values.  Python is dynamically typed and the code relies on it (a       *)
(* parsed field is a str, a rewritten one an int or a float), so a value   *)
(* carries its type: [t, s, num, den] with t in {"str","int","float"}; s   *)
(* is the text of a str, num the value of an int, num/den (den > 0) that   *)
(* of a float.                                                             *)
(* Floats are exact rationals here; the inputs drawn below are ones on     *)
(* which IEEE double arithmetic gives the same rounded results.            *)
(***************************************************************************)
EXTENDS Integers, Sequences, FiniteSets, TLC

VARIABLES
    pc,              \* where the program is: see the specifications below
    exc,             \* the exception that ended a call, "none" otherwise
    read,            \* convert_file_to_dict: the raw lines consumed by the for loop
    is_in_section,   \* convert_file_to_dict: local is_in_section
    current_header,  \* convert_file_to_dict: local current_header
    d,               \* the dictionary (osu_file_dict in the parser, d elsewhere)
    d0,              \* the dictionary as it was handed to speedup_osu_file
    rate,            \* speedup_osu_file: the rate argument, a local it overwrites
    orig_rate,       \* speedup_osu_file: local orig_rate, the rate as requested
    audio_jobs,      \* the calls made to speedup_audio_file, in order
    src_text,        \* the text of the file last read by convert_file_to_dict
    out_text         \* the text of the file last written by convert_dict_to_file

vars == <<pc, exc, read, is_in_section, current_header, d, d0, rate, orig_rate,
          audio_jobs, src_text, out_text>>

-----------------------------------------------------------------------------
(* Python values *)

StrV(s) == [t |-> "str", s |-> s, num |-> 0, den |-> 1]

IntV(n) == [t |-> "int", s |-> <<>>, num |-> n, den |-> 1]

FloatV(n, dd) == [t |-> "float", s |-> <<>>, num |-> n, den |-> dd]

Abs(x) == IF x < 0 THEN -x ELSE x

Max(a, b) == IF a >= b THEN a ELSE b

\* floor(n / dd) for dd > 0
FloorDiv(n, dd) == IF n >= 0 THEN n \div dd ELSE -((-n + dd - 1) \div dd)

\* Python 3 round(n/dd) for dd > 0: to the nearest integer, ties to even.
RoundHalfEven(n, dd) ==
    LET fl == FloorDiv(n, dd)
        rem2 == 2 * (n - fl * dd)
    IN  IF rem2 > dd THEN fl + 1
        ELSE IF rem2 < dd THEN fl
        ELSE IF fl % 2 = 0 THEN fl ELSE fl + 1

\* a rational n/dd with dd # 0, its denominator made positive
Norm(n, dd) == IF dd < 0 THEN <<-n, -dd>> ELSE <<n, dd>>

-----------------------------------------------------------------------------
(* str operations *)

Digits == <<"0", "1", "2", "3", "4", "5", "6", "7", "8", "9">>

IsDigit(c) == \E i \in 1..10 : Digits[i] = c

DigitVal(c) == (CHOOSE i \in 1..10 : Digits[i] = c) - 1

Whitespace == {" ", "\n"}

RECURSIVE LStrip(_)
LStrip(s) == IF s # <<>> /\ Head(s) \in Whitespace THEN LStrip(Tail(s)) ELSE s

RECURSIVE RStrip(_)
RStrip(s) ==
    IF s # <<>> /\ s[Len(s)] \in Whitespace
    THEN RStrip(SubSeq(s, 1, Len(s) - 1)) ELSE s

\* str.strip()
Strip(s) == RStrip(LStrip(s))

\* str.startswith(p)
StartsWith(s, p) == Len(s) >= Len(p) /\ SubSeq(s, 1, Len(p)) = p

\* str.find(sep): the least 1-based index where sep occurs in s, 0 if none
Find(s, sep) ==
    LET hits == {i \in 1..(Len(s) - Len(sep) + 1) :
                    SubSeq(s, i, i + Len(sep) - 1) = sep}
    IN  IF hits = {} THEN 0 ELSE CHOOSE i \in hits : \A j \in hits : i <= j

\* str.split(sep) for a non-empty sep: the list of pieces
RECURSIVE Split(_, _)
Split(s, sep) ==
    LET i == Find(s, sep)
    IN  IF i = 0 THEN <<s>>
        ELSE <<SubSeq(s, 1, i - 1)>> \o Split(SubSeq(s, i + Len(sep), Len(s)), sep)

\* sep.join(parts)
RECURSIVE Join(_, _)
Join(parts, sep) ==
    IF parts = <<>> THEN <<>>
    ELSE IF Len(parts) = 1 THEN parts[1]
    ELSE parts[1] \o sep \o Join(Tail(parts), sep)

\* str.rfind("."): the 0-based index of the last ".", -1 if none
RFindDot(s) ==
    LET hits == {i \in 1..Len(s) : s[i] = "."}
    IN  IF hits = {} THEN -1 ELSE (CHOOSE i \in hits : \A j \in hits : j <= i) - 1

\* s[:k] for a Python index k (negative counts from the end)
SliceTo(s, k) ==
    IF k >= 0 THEN SubSeq(s, 1, IF k > Len(s) THEN Len(s) ELSE k)
    ELSE SubSeq(s, 1, Max(Len(s) + k, 0))

\* str(n) for a natural number
RECURSIVE NatToStr(_)
NatToStr(n) ==
    IF n < 10 THEN <<Digits[n + 1]>>
    ELSE NatToStr(n \div 10) \o <<Digits[(n % 10) + 1]>>

\* str(n) for an int
IntToStr(n) == IF n < 0 THEN <<"-">> \o NatToStr(-n) ELSE NatToStr(n)

\* the value of a non-empty digit string
RECURSIVE DigitsToNat(_)
DigitsToNat(s) ==
    IF s = <<>> THEN 0
    ELSE 10 * DigitsToNat(SubSeq(s, 1, Len(s) - 1)) + DigitVal(s[Len(s)])

AllDigits(s) == s # <<>> /\ \A i \in 1..Len(s) : IsDigit(s[i])

Unsigned(s) == IF s # <<>> /\ s[1] \in {"-", "+"} THEN Tail(s) ELSE s

\* whether int(s) succeeds (it raises ValueError otherwise)
IsIntStr(s) == AllDigits(Unsigned(Strip(s)))

\* int(s)
StrToInt(s) ==
    LET u == Strip(s)
        m == DigitsToNat(Unsigned(u))
    IN  IF u[1] = "-" THEN -m ELSE m

\* whether float(s) succeeds: digits with an optional sign and fraction
IsFloatStr(s) ==
    LET u == Unsigned(Strip(s))
        i == Find(u, <<".">>)
    IN  IF i = 0 THEN AllDigits(u)
        ELSE AllDigits(SubSeq(u, 1, i - 1)) /\ AllDigits(SubSeq(u, i + 1, Len(u)))

RECURSIVE Pow10(_)
Pow10(k) == IF k = 0 THEN 1 ELSE 10 * Pow10(k - 1)

\* float(s), as the rational <<n, dd>>
StrToFloat(s) ==
    LET st == Strip(s)
        u == Unsigned(st)
        i == Find(u, <<".">>)
        ip == IF i = 0 THEN u ELSE SubSeq(u, 1, i - 1)
        fp == IF i = 0 THEN <<>> ELSE SubSeq(u, i + 1, Len(u))
        m == DigitsToNat(ip) * Pow10(Len(fp)) + DigitsToNat(fp)
    IN  <<IF st[1] = "-" THEN -m ELSE m, Pow10(Len(fp))>>

\* str(x) for a float x = n/dd that has at most one fractional digit
\* (repr prints the shortest string that reads back: 2.0, 9.9, -0.5)
FloatToStr(n, dd) ==
    LET tenths == (10 * n) \div dd
        a == Abs(tenths)
    IN  (IF tenths < 0 THEN <<"-">> ELSE <<>>)
        \o NatToStr(a \div 10) \o <<".">> \o NatToStr(a % 10)

\* str(v), as the f-strings and str() of the code compute it
PyStr(v) ==
    IF v.t = "str" THEN v.s
    ELSE IF v.t = "int" THEN IntToStr(v.num)
    ELSE FloatToStr(v.num, v.den)

-----------------------------------------------------------------------------
(* dict: Python dicts keep insertion order, so a dict is the sequence of   *)
(* its <<key, value>> items; assigning to a key that exists keeps its      *)
(* place.                                                                  *)

DictHas(dd, k) == \E i \in 1..Len(dd) : dd[i][1] = k

DictIdx(dd, k) == CHOOSE i \in 1..Len(dd) : dd[i][1] = k

DictGet(dd, k) == dd[DictIdx(dd, k)][2]

DictSet(dd, k, v) ==
    IF DictHas(dd, k) THEN [dd EXCEPT ![DictIdx(dd, k)] = <<k, v>>]
    ELSE Append(dd, <<k, v>>)

\* A section of the dictionary: {} holds items <<key, value>>, [] holds
\* records (lists of fields).
EmptyDict == [isList |-> FALSE, items |-> <<>>]

EmptyList == [isList |-> TRUE, items |-> <<>>]

General == <<"[General]">>

Editor == <<"[Editor]">>

Metadata == <<"[Metadata]">>

Difficulty == <<"[Difficulty]">>

Events == <<"[Events]">>

TimingPoints == <<"[TimingPoints]">>

Colours == <<"[Colours]">>

HitObjects == <<"[HitObjects]">>

\* d[h][k] = v
SetKey(dd, h, k, v) ==
    DictSet(dd, h, [DictGet(dd, h) EXCEPT !.items = DictSet(@, k, v)])

HasKey(dd, h, k) == DictHas(dd, h) /\ DictHas(DictGet(dd, h).items, k)

GetKey(dd, h, k) == DictGet(DictGet(dd, h).items, k)

-----------------------------------------------------------------------------
(* convert_file_to_dict *)

\* the state of the for loop: its locals and the exception that ended it
ParserStart ==
    [is_in_section |-> FALSE, current_header |-> <<>>,
     osu_file_dict |-> <<>>, exc |-> "none"]

\* line 33
IsComment(line) == StartsWith(line, <<"/", "/">>)

\* lines 48-51: the section a header line opens
NewSection(header) ==
    IF header = Events \/ header = TimingPoints \/ header = HitObjects
    THEN EmptyList ELSE EmptyDict

\* lines 57-58, 60-61, 63-64: line.split(sep); d[header][line[0]] = line[1]
KeyValueLine(st, line, sep) ==
    LET parts == Split(line, sep)
    IN  IF Len(parts) < 2 THEN [st EXCEPT !.exc = "IndexError"]
        ELSE [st EXCEPT !.osu_file_dict =
                 SetKey(@, st.current_header, parts[1], StrV(parts[2]))]

\* lines 66-67: line.split(","); d[header].append(line)
RecordLine(st, line) ==
    LET sec == DictGet(st.osu_file_dict, st.current_header)
        rec == [i \in 1..Len(Split(line, <<",">>)) |-> StrV(Split(line, <<",">>)[i])]
    IN  IF ~sec.isList THEN [st EXCEPT !.exc = "AttributeError"]
        ELSE [st EXCEPT !.osu_file_dict =
                 DictSet(@, st.current_header,
                         [sec EXCEPT !.items = Append(@, rec)])]

\* lines 56-67: a line inside a section
DataLine(st, line) ==
    LET h == st.current_header
    IN  IF h = General \/ h = Editor THEN KeyValueLine(st, line, <<":", " ">>)
        ELSE IF h = Metadata \/ h = Difficulty THEN KeyValueLine(st, line, <<":">>)
        ELSE IF h = Colours THEN KeyValueLine(st, line, <<" ", ":", " ">>)
        ELSE RecordLine(st, line)

\* ParseLine with a comment line ending the section
ParseLineCommentEnds(st, raw) ==
    LET line == Strip(raw)
    IN  IF IsComment(line) \/ line = <<>> THEN [st EXCEPT !.is_in_section = FALSE]
        ELSE IF ~st.is_in_section
        THEN [st EXCEPT !.is_in_section = TRUE,
                        !.current_header = line,
                        !.osu_file_dict = DictSet(@, line, NewSection(line))]
        ELSE DataLine(st, line)

\* lines 30-67: one iteration of the for loop on the raw line
ParseLine(st, raw) ==
    LET line == Strip(raw)
    IN  IF IsComment(line) THEN st
        ELSE IF line = <<>> THEN [st EXCEPT !.is_in_section = FALSE]
        ELSE IF ~st.is_in_section
        THEN [st EXCEPT !.is_in_section = TRUE,
                        !.current_header = line,
                        !.osu_file_dict = DictSet(@, line, NewSection(line))]
        ELSE DataLine(st, line)

\* the lines of a text as iterating a file yields them: each ends with its
\* line feed, the last one possibly without
RECURSIVE Lines(_)
Lines(text) ==
    LET i == Find(text, <<"\n">>)
    IN  IF text = <<>> THEN <<>>
        ELSE IF i = 0 THEN <<text>>
        ELSE <<SubSeq(text, 1, i)>> \o Lines(SubSeq(text, i + 1, Len(text)))

\* lines 30-67: the for loop over the lines left, stopping at an exception
RECURSIVE ParseLines(_, _)
ParseLines(st, ls) ==
    IF ls = <<>> \/ st.exc # "none" THEN st
    ELSE ParseLines(ParseLine(st, Head(ls)), Tail(ls))

\* lines 22-70: the first line is read and dropped, the rest parsed
ParseText(text) ==
    LET ls == Lines(text)
    IN  ParseLines(ParserStart, IF ls = <<>> THEN <<>> ELSE Tail(ls))

-----------------------------------------------------------------------------
(* convert_dict_to_file *)

AllSections ==
    <<General, Editor, Metadata, Difficulty, Events, TimingPoints, Colours,
      HitObjects>>

\* lines 260-261 and alike: f"{key}{sep}{value}\n" for every item
RECURSIVE WriteItems(_, _)
WriteItems(items, sep) ==
    IF items = <<>> THEN <<>>
    ELSE items[1][1] \o sep \o PyStr(items[1][2]) \o <<"\n">>
         \o WriteItems(Tail(items), sep)

\* ",".join([str(thing) for thing in line])
RecordText(rec) == Join([i \in 1..Len(rec) |-> PyStr(rec[i])], <<",">>)

\* lines 284-285, 290-291: every record on a line of its own
RECURSIVE WriteRecords(_)
WriteRecords(recs) ==
    IF recs = <<>> THEN <<>>
    ELSE RecordText(recs[1]) \o <<"\n">> \o WriteRecords(Tail(recs))

\* lines 302-309: the last record is written without a line feed
WriteHitObjects(recs) ==
    IF recs = <<>> THEN <<>>
    ELSE WriteRecords(SubSeq(recs, 1, Len(recs) - 1)) \o RecordText(recs[Len(recs)])

\* the separator each key-value section is written with
Separator(h) ==
    IF h = General \/ h = Editor THEN <<":", " ">>
    ELSE IF h = Colours THEN <<" ", ":", " ">>
    ELSE <<":">>

\* lines 258-309: what follows the header line of section h
SectionBody(dd, h) ==
    LET items == DictGet(dd, h).items
    IN  IF h = HitObjects THEN WriteHitObjects(items)
        ELSE IF h = TimingPoints THEN WriteRecords(items) \o <<"\n", "\n">>
        ELSE IF h = Events THEN WriteRecords(items) \o <<"\n">>
        ELSE WriteItems(items, Separator(h)) \o <<"\n">>

\* lines 258-309: the sections in the fixed order; the header line is written
\* before d[h] is looked up, and a KeyError there ends the writing
RECURSIVE WriteSections(_, _)
WriteSections(dd, hs) ==
    IF hs = <<>> THEN <<>>
    ELSE hs[1] \o <<"\n">>
         \o (IF DictHas(dd, hs[1])
             THEN SectionBody(dd, hs[1]) \o WriteSections(dd, Tail(hs))
             ELSE <<>>)

\* lines 254-309: the text in the file when the call ends
FileText(dd) ==
    <<"osu file format v14", "\n", "\n">> \o WriteSections(dd, AllSections)

\* d[h] raises KeyError for a section the dictionary lacks
MissingSection(dd) == \E i \in 1..Len(AllSections) : ~DictHas(dd, AllSections[i])

-----------------------------------------------------------------------------
(* speedup_osu_file.  The function works on d in place and may raise part  *)
(* of the way; its run is a chain of steps over the record                 *)
(* [d, rate, exc, jobs], a step doing nothing once exc is set.             *)

Raise(st, e) == [st EXCEPT !.exc = e]

\* int(v) succeeds
CanInt(v) == v.t # "str" \/ IsIntStr(v.s)

\* int(v)
ToInt(v) ==
    IF v.t = "str" THEN StrToInt(v.s)
    ELSE IF v.t = "int" THEN v.num
    ELSE IF v.num >= 0 THEN v.num \div v.den ELSE -((-v.num) \div v.den)

\* float(v) succeeds
CanFloat(v) == v.t # "str" \/ IsFloatStr(v.s)

\* float(v), as <<n, dd>>
ToFloat(v) == IF v.t = "str" THEN StrToFloat(v.s) ELSE <<v.num, v.den>>

\* a == b of Python: a str never equals a number
PyEq(a, b) ==
    IF a.t = "str" \/ b.t = "str" THEN a.t = b.t /\ a.s = b.s
    ELSE a.num * b.den = b.num * a.den

\* x / r for a rational x = <<n, dd>> and a rate r # 0: a float
DivRate(x, r) ==
    LET q == Norm(x[1] * r.den, x[2] * r.num) IN FloatV(q[1], q[2])

\* round(x) of a float
Round(x) == IntV(RoundHalfEven(x.num, x.den))

\* Rescale with the time multiplied by the rate
RescaleTimes(v, r) == Round(FloatV(ToInt(v) * r.num, r.den))

\* lines 116, 117, 126, 185, 189, 202, 225, 229: round(int(v) / rate)
Rescale(v, r) == Round(DivRate(<<ToInt(v), 1>>, r))

\* line 113: rate /= 1.5
Reduce(r) == FloatV(2 * r.num, 3 * r.den)

\* lines 93-98, 138-143: the preempt of an approach rate
Preempt(approach_rate) ==
    IF approach_rate < 5 THEN <<1200 * 5 + 600 * (5 - approach_rate), 5>>
    ELSE IF approach_rate > 5 THEN <<1200 * 5 - 750 * (approach_rate - 5), 5>>
    ELSE <<1200, 1>>

\* lines 99-106, 146-154: the approach rate of the preempt divided by rate
NewApproachRate(approach_rate, r) ==
    LET preempt == DivRate(Preempt(approach_rate), r)
        n == preempt.num
        dd == preempt.den
    IN  IF n > 1200 * dd THEN FloatV(1800 * dd - n, 120 * dd)
        ELSE IF n < 1200 * dd THEN FloatV(1950 * dd - n, 150 * dd)
        ELSE IntV(5)

\* lines 108-110, 165-171: the overall difficulty of the hit window divided
\* by rate
NewOverallDifficulty(overall_difficulty, r) ==
    LET hit_window == DivRate(<<80 - 6 * overall_difficulty, 1>>, r)
    IN  FloatV(80 * hit_window.den - hit_window.num, 6 * hit_window.den)

\* x > 10
Above10(x) == x.num > 10 * x.den

\* EffectiveRate with the check repeated on the reduced rate
EffectiveRateRepeated(approach_rate, overall_difficulty, r) ==
    LET once == IF Above10(NewApproachRate(approach_rate, r))
                   \/ Above10(NewOverallDifficulty(overall_difficulty, r))
                THEN Reduce(r) ELSE r
    IN  IF Above10(NewApproachRate(approach_rate, once))
           \/ Above10(NewOverallDifficulty(overall_difficulty, once))
        THEN Reduce(once) ELSE once

\* lines 112-113: the rate every later step divides by
EffectiveRate(approach_rate, overall_difficulty, r) ==
    IF Above10(NewApproachRate(approach_rate, r))
       \/ Above10(NewOverallDifficulty(overall_difficulty, r))
    THEN Reduce(r) ELSE r

\* lines 158, 175: min(round(x, 1), 10); min keeps its first argument on a tie
Capped(x) ==
    IF x.t = "int" THEN (IF x.num > 10 THEN IntV(10) ELSE x)
    ELSE LET tenths == RoundHalfEven(10 * x.num, x.den)
         IN  IF tenths > 100 THEN IntV(10) ELSE FloatV(tenths, 10)

\* line 81: the version label
VersionLabel(version, r) == version \o <<" ">> \o PyStr(r) \o <<"x">>

\* line 81
TagVersion(st) ==
    IF st.exc # "none" THEN st
    ELSE IF ~HasKey(st.d, Metadata, <<"Version">>) THEN Raise(st, "KeyError")
    ELSE [st EXCEPT !.d =
             SetKey(@, Metadata, <<"Version">>,
                    StrV(VersionLabel(PyStr(GetKey(st.d, Metadata, <<"Version">>)),
                                      st.rate)))]

\* lines 91-113: the simulation and the compensating reduction
SimulateAndReduce(st) ==
    LET ar == GetKey(st.d, Difficulty, <<"ApproachRate">>)
        od == GetKey(st.d, Difficulty, <<"OverallDifficulty">>)
    IN  IF st.exc # "none" THEN st
        ELSE IF ~HasKey(st.d, Difficulty, <<"ApproachRate">>) THEN Raise(st, "KeyError")
        ELSE IF ~CanInt(ar) THEN Raise(st, "ValueError")
        ELSE IF st.rate.num = 0 THEN Raise(st, "ZeroDivisionError")
        ELSE IF ~HasKey(st.d, Difficulty, <<"OverallDifficulty">>) THEN Raise(st, "KeyError")
        ELSE IF ~CanInt(od) THEN Raise(st, "ValueError")
        ELSE [st EXCEPT !.rate = EffectiveRate(ToInt(ar), ToInt(od), st.rate)]

\* lines 116, 117: d[h][k] = round(int(d[h][k]) / rate)
RescaleKey(st, h, k) ==
    IF st.exc # "none" THEN st
    ELSE IF ~HasKey(st.d, h, k) THEN Raise(st, "KeyError")
    ELSE IF ~CanInt(GetKey(st.d, h, k)) THEN Raise(st, "ValueError")
    ELSE [st EXCEPT !.d = SetKey(@, h, k, Rescale(GetKey(st.d, h, k), st.rate))]

\* lines 121-128
RescaleBookmarks(st) ==
    LET editor_bookmarks == Split(PyStr(GetKey(st.d, Editor, <<"Bookmarks">>)), <<",">>)
        editor_bookmarks_adjusted ==
            [i \in 1..Len(editor_bookmarks) |->
                PyStr(Rescale(StrV(editor_bookmarks[i]), st.rate))]
    IN  IF st.exc # "none" THEN st
        ELSE IF ~DictHas(st.d, Editor) THEN Raise(st, "KeyError")
        ELSE IF ~HasKey(st.d, Editor, <<"Bookmarks">>) THEN st
        ELSE IF \E i \in 1..Len(editor_bookmarks) : ~IsIntStr(editor_bookmarks[i])
        THEN Raise(st, "ValueError")
        ELSE [st EXCEPT !.d =
                 SetKey(@, Editor, <<"Bookmarks">>,
                        StrV(Join(editor_bookmarks_adjusted, <<",">>)))]

\* lines 135-158
StoreApproachRate(st) ==
    LET ar == GetKey(st.d, Difficulty, <<"ApproachRate">>)
    IN  IF st.exc # "none" THEN st
        ELSE [st EXCEPT !.d =
                 SetKey(@, Difficulty, <<"ApproachRate">>,
                        Capped(NewApproachRate(ToInt(ar), st.rate)))]

\* lines 162-175
StoreOverallDifficulty(st) ==
    LET od == GetKey(st.d, Difficulty, <<"OverallDifficulty">>)
    IN  IF st.exc # "none" THEN st
        ELSE [st EXCEPT !.d =
                 SetKey(@, Difficulty, <<"OverallDifficulty">>,
                        Capped(NewOverallDifficulty(ToInt(od), st.rate)))]

\* line 188: event[0] == 2 or event[0] == "Break"
IsBreak(event) == PyEq(event[1], IntV(2)) \/ PyEq(event[1], StrV(<<"Break">>))

\* lines 183-189: the exception an event raises, "none" if none
EventError(event) ==
    IF Len(event) < 2 THEN "IndexError"
    ELSE IF ~CanInt(event[2]) THEN "ValueError"
    ELSE IF ~IsBreak(event) THEN "none"
    ELSE IF Len(event) < 3 THEN "IndexError"
    ELSE IF ~CanInt(event[3]) THEN "ValueError"
    ELSE "none"

\* lines 183-189
NewEvent(event, r) ==
    [i \in 1..Len(event) |->
        IF i = 2 \/ (i = 3 /\ IsBreak(event)) THEN Rescale(event[i], r)
        ELSE event[i]]

\* line 206: timing_point[6] == "1"
IsUninherited(timing_point) == PyEq(timing_point[7], StrV(<<"1">>))

\* lines 200-207
TimingPointError(timing_point) ==
    IF ~CanInt(timing_point[1]) THEN "ValueError"
    ELSE IF Len(timing_point) < 7 THEN "IndexError"
    ELSE IF IsUninherited(timing_point) /\ ~CanFloat(timing_point[2]) THEN "ValueError"
    ELSE "none"

\* lines 200-207
NewTimingPoint(timing_point, r) ==
    [i \in 1..Len(timing_point) |->
        IF i = 1 THEN Rescale(timing_point[i], r)
        ELSE IF i = 2 /\ IsUninherited(timing_point)
        THEN DivRate(ToFloat(timing_point[i]), r)
        ELSE timing_point[i]]

\* IsSpinner testing bit 0x04
IsSpinnerBit4(type) == (FloorDiv(type, 4) % 2) # 0

\* line 228: int(hit_object[3]) & 0b00001000 != 0
IsSpinner(type) == (FloorDiv(type, 8) % 2) # 0

\* lines 222-229
HitObjectError(hit_object) ==
    IF Len(hit_object) < 3 THEN "IndexError"
    ELSE IF ~CanInt(hit_object[3]) THEN "ValueError"
    ELSE IF Len(hit_object) < 4 THEN "IndexError"
    ELSE IF ~CanInt(hit_object[4]) THEN "ValueError"
    ELSE IF ~IsSpinner(ToInt(hit_object[4])) THEN "none"
    ELSE IF Len(hit_object) < 6 THEN "IndexError"
    ELSE IF ~CanInt(hit_object[6]) THEN "ValueError"
    ELSE "none"

\* lines 222-229
NewHitObject(hit_object, r) ==
    [i \in 1..Len(hit_object) |->
        IF i = 3 \/ (i = 6 /\ IsSpinner(ToInt(hit_object[4])))
        THEN Rescale(hit_object[i], r)
        ELSE hit_object[i]]

\* the exception of the first record that raises one, "none" if none does
FirstError(errors) ==
    IF \A i \in 1..Len(errors) : errors[i] = "none" THEN "none"
    ELSE errors[CHOOSE i \in 1..Len(errors) :
                    /\ errors[i] # "none"
                    /\ \A j \in 1..(i - 1) : errors[j] = "none"]

\* lines 178-193
RescaleEvents(st) ==
    LET events == DictGet(st.d, Events).items
        err == FirstError([i \in 1..Len(events) |-> EventError(events[i])])
    IN  IF st.exc # "none" THEN st
        ELSE IF ~DictHas(st.d, Events) THEN Raise(st, "KeyError")
        ELSE IF err # "none" THEN Raise(st, err)
        ELSE [st EXCEPT !.d =
                 DictSet(@, Events,
                         [isList |-> TRUE,
                          items |-> [i \in 1..Len(events) |-> NewEvent(events[i], st.rate)]])]

\* lines 196-211
RescaleTimingPoints(st) ==
    LET timing_points == DictGet(st.d, TimingPoints).items
        err == FirstError([i \in 1..Len(timing_points) |->
                              TimingPointError(timing_points[i])])
    IN  IF st.exc # "none" THEN st
        ELSE IF ~DictHas(st.d, TimingPoints) THEN Raise(st, "KeyError")
        ELSE IF err # "none" THEN Raise(st, err)
        ELSE [st EXCEPT !.d =
                 DictSet(@, TimingPoints,
                         [isList |-> TRUE,
                          items |-> [i \in 1..Len(timing_points) |->
                                        NewTimingPoint(timing_points[i], st.rate)]])]

\* lines 218-233
RescaleHitObjects(st) ==
    LET hit_objects == DictGet(st.d, HitObjects).items
        err == FirstError([i \in 1..Len(hit_objects) |-> HitObjectError(hit_objects[i])])
    IN  IF st.exc # "none" THEN st
        ELSE IF ~DictHas(st.d, HitObjects) THEN Raise(st, "KeyError")
        ELSE IF err # "none" THEN Raise(st, err)
        ELSE [st EXCEPT !.d =
                 DictSet(@, HitObjects,
                         [isList |-> TRUE,
                          items |-> [i \in 1..Len(hit_objects) |->
                                        NewHitObject(hit_objects[i], st.rate)]])]

\* line 243: the file name up to its last dot
FilenameNoPath(filename) == SliceTo(filename, RFindDot(filename))

\* lines 244, 245: f"{orig_rate}-{filename_no_path}.mp3"
Destination(filename, requested) ==
    PyStr(requested) \o <<"-">> \o FilenameNoPath(filename) \o <<".", "mp3">>

\* AudioRate with the requested rate handed on instead
AudioRateRequested(r, requested) == requested

\* line 244: the rate handed to speedup_audio_file
AudioRate(r, requested) == r

\* lines 243-245
SpeedupAudio(st, requested) ==
    LET filename == PyStr(GetKey(st.d, General, <<"AudioFilename">>))
    IN  IF st.exc # "none" THEN st
        ELSE IF ~HasKey(st.d, General, <<"AudioFilename">>) THEN Raise(st, "KeyError")
        ELSE [st EXCEPT
                 !.jobs = Append(@, [source |-> filename,
                                     rate |-> AudioRate(st.rate, requested),
                                     destination |-> Destination(filename, requested)]),
                 !.d = SetKey(@, General, <<"AudioFilename">>,
                              StrV(Destination(filename, requested)))]

\* lines 73-247: the whole call, as far as it gets
SpeedupRun(dd, r) ==
    LET s0 == [d |-> dd, rate |-> r, exc |-> "none", jobs |-> <<>>]
        s1 == SimulateAndReduce(TagVersion(s0))
        s2 == RescaleKey(RescaleKey(s1, General, <<"AudioLeadIn">>),
                         General, <<"PreviewTime">>)
        s3 == StoreOverallDifficulty(StoreApproachRate(RescaleBookmarks(s2)))
        s4 == RescaleHitObjects(RescaleTimingPoints(RescaleEvents(s3)))
    IN  SpeedupAudio(s4, r)

-----------------------------------------------------------------------------
(* The rate transform on a parsed file: Spec.  The dictionary is one the   *)
(* parser returns (every value and field a str) and the rate any number    *)
(* the caller may pass.                                                    *)

MaxTime == 3

\* the greatest ApproachRate and OverallDifficulty of the file format
MaxDifficulty == 10

\* the time stamps of a file are derived from one base time
BaseTimes == -1..MaxTime

\* the rates requested: floats with one decimal, and ints
Rates ==
    { FloatV(n, 10) : n \in {-10, 0, 5, 8, 13, 14, 15, 20, 30} }
    \cup { IntV(n) : n \in {0, 2} }

FileNames == { <<"a", ".", "m">>, <<"a", ".", "b", ".", "m">>, <<"a", "b">> }

S(n) == StrV(IntToStr(n))

W(word) == StrV(<<word>>)

\* the parsed file with the difficulty values ar and od, base time t and
\* audio file name fn
FullDict(ar, od, t, fn) ==
    << <<General, [isList |-> FALSE, items |->
          << <<<<"AudioFilename">>, StrV(fn)>>,
             <<<<"AudioLeadIn">>, S(Abs(t))>>,
             <<<<"PreviewTime">>, S(t)>> >>]>>,
       <<Editor, [isList |-> FALSE, items |->
          << <<<<"Bookmarks">>, StrV(IntToStr(t) \o <<",">> \o IntToStr(1000 * t + 500))>>,
             <<<<"GridSize">>, S(4)>> >>]>>,
       <<Metadata, [isList |-> FALSE, items |->
          << <<<<"Title">>, W("Song")>>, <<<<"Version">>, W("Hard")>> >>]>>,
       <<Difficulty, [isList |-> FALSE, items |->
          << <<<<"ApproachRate">>, S(ar)>>, <<<<"OverallDifficulty">>, S(od)>> >>]>>,
       <<Events, [isList |-> TRUE, items |->
          << <<S(0), S(0), W("bg"), S(0), S(0)>>,
             <<S(2), S(500 * t), S(500 * t + 250)>>,
             <<W("Break"), S(3 * t), S(3 * t + 1001)>>,
             <<W("Video"), S(t - 2), W("v")>> >>]>>,
       <<TimingPoints, [isList |-> TRUE, items |->
          << <<S(t), StrV(<<"5", "0", "0", ".", "5">>), S(4), S(1), S(0), S(60), S(1), S(0)>>,
             <<S(250 * t), S(-100), S(4), S(1), S(0), S(60), S(0), S(0)>> >>]>>,
       <<Colours, [isList |-> FALSE, items |->
          << <<<<"Combo1">>, StrV(<<"1", ",", "2", ",", "3">>)>> >>]>>,
       <<HitObjects, [isList |-> TRUE, items |->
          << <<S(256), S(192), S(t), S(1), S(0), W("0:0:0:0:")>>,
             <<S(256), S(192), S(250 * t + 1), S(5), S(0), S(777)>>,
             <<S(256), S(192), S(250 * t + 3), S(12), S(0), S(250 * t + 1000), W("0:0:0:0:")>>,
             <<S(256), S(192), S(1000 * t), S(8), S(0), S(1001 * t)>> >>]>> >>

\* d without the key k of section h
DelKey(dd, h, k) ==
    LET sec == DictGet(dd, h)
    IN  DictSet(dd, h, [sec EXCEPT !.items = SelectSeq(@, LAMBDA it : it[1] # k)])

\* files without a key the transform reads
Lacking ==
    { <<Difficulty, <<"ApproachRate">>>>, <<General, <<"AudioFilename">>>>,
      <<Editor, <<"Bookmarks">>>>, <<Colours, <<"Combo1">>>> }

Dicts ==
    { FullDict(ar, od, t, fn) :
        ar \in 0..MaxDifficulty, od \in {0, 5, 8, MaxDifficulty}, t \in BaseTimes,
        fn \in FileNames }
    \cup { DelKey(FullDict(ar, MaxDifficulty - ar, t, <<"a", ".", "m">>), k[1], k[2]) :
             ar \in {0, 5, MaxDifficulty}, t \in BaseTimes, k \in Lacking }

Init ==
    /\ pc = "parsed"
    /\ exc = "none"
    /\ read = <<>>
    /\ is_in_section = TRUE
    /\ current_header = HitObjects
    /\ d \in Dicts
    /\ d0 = d
    /\ rate \in Rates
    /\ orig_rate = rate
    /\ audio_jobs = <<>>
    /\ src_text = <<>>
    /\ out_text = <<>>

\* lines 73-247: the whole call; d is changed in place, also when it raises
speedup_osu_file ==
    /\ pc = "parsed"
    /\ \E run \in {SpeedupRun(d, rate)} :
           /\ d' = run.d
           /\ rate' = run.rate
           /\ audio_jobs' = audio_jobs \o run.jobs
           /\ exc' = run.exc
           /\ pc' = IF run.exc = "none" THEN "returned" ELSE "raised"
    /\ UNCHANGED <<read, is_in_section, current_header, d0, orig_rate,
                   src_text, out_text>>

Next == speedup_osu_file

Spec == Init /\ [][Next]_vars

-----------------------------------------------------------------------------
(* The parser on an arbitrary file: SpecParse.  The file's first line has  *)
(* been read and dropped (line 24); each step is one iteration of the for  *)
(* loop on the next line of the file, or the end of the file.              *)

MaxLines == 4

\* the raw lines a file may hold
InputLines ==
    { <<"\n">>,
      <<" ", "/", "/", "c", "\n">>,
      <<"[General]", "\n">>,
      <<"[Metadata]", "\n">>,
      <<"[Events]", "\n">>,
      <<"[Foo]", "\n">>,
      <<"k", ":", " ", "v", "\n">>,
      <<"k", ":", " ", ":", " ", "v", "\n">>,
      <<"1", ",", "2", "\n">> }

NoTransform ==
    /\ d0 = <<>>
    /\ rate = IntV(1)
    /\ orig_rate = IntV(1)
    /\ audio_jobs = <<>>

InitParse ==
    /\ pc = "reading"
    /\ exc = "none"
    /\ read = <<>>
    /\ is_in_section = ParserStart.is_in_section
    /\ current_header = ParserStart.current_header
    /\ d = ParserStart.osu_file_dict
    /\ src_text = <<>>
    /\ out_text = <<>>
    /\ NoTransform

ParserState ==
    [is_in_section |-> is_in_section, current_header |-> current_header,
     osu_file_dict |-> d, exc |-> "none"]

\* lines 30-67: the loop body on the next line of the file
ReadLine ==
    /\ pc = "reading"
    /\ Len(read) < MaxLines
    /\ \E raw \in InputLines :
         \E st \in {ParseLine(ParserState, raw)} :
             /\ read' = Append(read, raw)
             /\ is_in_section' = st.is_in_section
             /\ current_header' = st.current_header
             /\ d' = st.osu_file_dict
             /\ exc' = st.exc
             /\ pc' = IF st.exc = "none" THEN "reading" ELSE "raised"
    /\ UNCHANGED <<d0, rate, orig_rate, audio_jobs, src_text, out_text>>

\* line 70: the file is exhausted and the dictionary returned
EndOfFile ==
    /\ pc = "reading"
    /\ pc' = "returned"
    /\ UNCHANGED <<exc, read, is_in_section, current_header, d, d0, rate,
                   orig_rate, audio_jobs, src_text, out_text>>

NextParse == ReadLine \/ EndOfFile

SpecParse == InitParse /\ [][NextParse]_vars

-----------------------------------------------------------------------------
(* Reading a file back: SpecRoundTrip.  main's pipeline without the rate   *)
(* transform: a file is parsed, the dictionary written, and the written    *)
(* file parsed and written once more.                                      *)

MaxRecords == 2

\* the bodies a section of the first file may have, as the lines under its
\* header
GeneralBodies ==
    { <<>>,
      <<"k", ":", " ", "v", "\n">>,
      <<"k", ":", " ", " ", "v", "\n">>,
      <<"k", ":", " ", ":", " ", "v", "\n">> }

MetadataBodies ==
    { <<>>,
      <<"Source", ":", "\n">>,
      <<"Version", ":", "Hard", " ", "1", ".", "3", "x", "\n">> }

ColoursBodies ==
    { <<>>,
      <<"Combo1", " ", ":", " ", "1", ",", "2", "\n">>,
      <<"Combo1", " ", ":", " ", " ", ":", " ", "1", "\n">> }

RecordBodies ==
    { <<>>, <<"/", "/", "c", "\n", "0", ",", "1", ",", ",", "\n">> }

RECURSIVE Repeat(_, _)
Repeat(s, k) == IF k = 0 THEN <<>> ELSE s \o Repeat(s, k - 1)

HitObjectsBodies ==
    { Repeat(<<"1", ",", "2", ",", "3", "\n">>, k) : k \in 0..MaxRecords }

\* the files read first: any version line, the sections in any of two
\* orders, [Colours] possibly absent
FirstFiles ==
    { <<"osu file format v9", "\n", "\n">>
      \o (IF swap THEN Metadata \o <<"\n">> \o m \o <<"\n">> ELSE <<>>)
      \o General \o <<"\n">> \o g \o <<"\n">>
      \o Editor \o <<"\n", "\n">>
      \o (IF swap THEN <<>> ELSE Metadata \o <<"\n">> \o m \o <<"\n">>)
      \o Difficulty \o <<"\n", "\n">>
      \o Events \o <<"\n">> \o e \o <<"\n">>
      \o TimingPoints \o <<"\n">> \o e \o <<"\n", "\n">>
      \o (IF c = <<"absent">> THEN <<>> ELSE Colours \o <<"\n">> \o c \o <<"\n">>)
      \o HitObjects \o <<"\n">> \o h :
        g \in GeneralBodies, m \in MetadataBodies, e \in RecordBodies,
        c \in ColoursBodies \cup {<<"absent">>}, h \in HitObjectsBodies,
        swap \in BOOLEAN }

InitRoundTrip ==
    /\ pc = "start"
    /\ exc = "none"
    /\ read = <<>>
    /\ is_in_section = ParserStart.is_in_section
    /\ current_header = ParserStart.current_header
    /\ d = ParserStart.osu_file_dict
    /\ src_text \in FirstFiles
    /\ out_text = <<>>
    /\ NoTransform

\* lines 9-70: the whole call, on the first file or on the file just written
convert_file_to_dict ==
    /\ pc \in {"start", "written"}
    /\ \E text \in {IF pc = "start" THEN src_text ELSE out_text} :
         \E st \in {ParseText(text)} :
           /\ src_text' = text
           /\ read' = Tail(Lines(text))
           /\ is_in_section' = st.is_in_section
           /\ current_header' = st.current_header
           /\ d' = st.osu_file_dict
           /\ exc' = st.exc
           /\ pc' = IF st.exc # "none"
                    THEN (IF pc = "start" THEN "raised" ELSE "reraised")
                    ELSE (IF pc = "start" THEN "parsed" ELSE "reparsed")
    /\ UNCHANGED <<d0, rate, orig_rate, audio_jobs, out_text>>

\* lines 250-311: the whole call
convert_dict_to_file ==
    /\ pc \in {"parsed", "reparsed"}
    /\ out_text' = FileText(d)
    /\ exc' = IF MissingSection(d) THEN "KeyError" ELSE "none"
    /\ pc' = IF MissingSection(d) THEN "raised"
             ELSE IF pc = "parsed" THEN "written" ELSE "rewritten"
    /\ UNCHANGED <<read, is_in_section, current_header, d, d0, rate,
                   orig_rate, audio_jobs, src_text>>

NextRoundTrip == convert_file_to_dict \/ convert_dict_to_file

SpecRoundTrip == InitRoundTrip /\ [][NextRoundTrip]_vars

-----------------------------------------------------------------------------
(* The claims about speedup_osu_file, checked under Spec.                  *)

\* the value of key k of section h before and after the call
In0(h, k) == GetKey(d0, h, k)

Out(h, k) == GetKey(d, h, k)

\* the records of section h before and after the call
Recs0(h) == DictGet(d0, h).items

Recs(h) == DictGet(d, h).items

\* r as a rational is greater (less) than the integer k; r.den > 0
RateAbove(r, k) == r.num > k * r.den

RateBelow(r, k) == r.num < k * r.den

\* the effective rate as the specification defines it: the requested rate
\* divided by 1.5, once, if the approach rate or the overall difficulty
\* recomputed from the input values at the requested rate exceeds 10
ClaimedEffectiveRate ==
    LET ar == ToInt(In0(Difficulty, <<"ApproachRate">>))
        od == ToInt(In0(Difficulty, <<"OverallDifficulty">>))
    IN  IF Above10(NewApproachRate(ar, orig_rate))
           \/ Above10(NewOverallDifficulty(od, orig_rate))
        THEN FloatV(2 * orig_rate.num, 3 * orig_rate.den)
        ELSE orig_rate

\* the base name of a file name: what precedes its last dot, or, for a name
\* without a dot, what precedes its last character
IsBaseName(base, filename) ==
    \E k \in 0..Len(filename) :
        /\ base = SubSeq(filename, 1, k)
        /\ IF \E i \in 1..Len(filename) : filename[i] = "."
           THEN /\ k < Len(filename)
                /\ filename[k + 1] = "."
                /\ \A i \in (k + 2)..Len(filename) : filename[i] # "."
           ELSE k = Len(filename) - 1

\* the version label, the source and the destination of the audio job carry
\* the requested rate
LabelsUseRequestedRate ==
    /\ Out(Metadata, <<"Version">>)
         = StrV(In0(Metadata, <<"Version">>).s \o <<" ">> \o PyStr(orig_rate) \o <<"x">>)
    /\ Len(audio_jobs) = 1
    /\ audio_jobs[1].source = In0(General, <<"AudioFilename">>).s
    /\ Out(General, <<"AudioFilename">>) = StrV(audio_jobs[1].destination)
    /\ \E base \in {SubSeq(audio_jobs[1].source, 1, k) :
                       k \in 0..Len(audio_jobs[1].source)} :
          /\ IsBaseName(base, audio_jobs[1].source)
          /\ audio_jobs[1].destination
               = PyStr(orig_rate) \o <<"-">> \o base \o <<".", "mp3">>

BookmarksAt(v, e) ==
    LET parts == Split(v.s, <<",">>)
    IN  StrV(Join([i \in 1..Len(parts) |-> PyStr(Rescale(StrV(parts[i]), e))], <<",">>))

\* C2: the effective rate is the requested rate divided by 1.5 exactly when
\* the approach rate or overall difficulty simulated from the input values at
\* the requested rate exceeds 10, and the requested rate otherwise; it is
\* never divided twice; and every rescaled field (AudioLeadIn, PreviewTime,
\* Bookmarks, the stored ApproachRate and OverallDifficulty, Events,
\* TimingPoints, HitObjects) is computed with that one rate.
C2_OneEffectiveRate ==
    pc = "returned" =>
      \A e \in {ClaimedEffectiveRate} :
        /\ PyEq(rate, e)
        /\ Out(General, <<"AudioLeadIn">>) = Rescale(In0(General, <<"AudioLeadIn">>), e)
        /\ Out(General, <<"PreviewTime">>) = Rescale(In0(General, <<"PreviewTime">>), e)
        /\ HasKey(d0, Editor, <<"Bookmarks">>) =>
             Out(Editor, <<"Bookmarks">>) = BookmarksAt(In0(Editor, <<"Bookmarks">>), e)
        /\ Out(Difficulty, <<"ApproachRate">>)
             = Capped(NewApproachRate(ToInt(In0(Difficulty, <<"ApproachRate">>)), e))
        /\ Out(Difficulty, <<"OverallDifficulty">>)
             = Capped(NewOverallDifficulty(ToInt(In0(Difficulty, <<"OverallDifficulty">>)), e))
        /\ \A i \in 1..Len(Recs0(Events)) :
             /\ Recs(Events)[i][2] = Rescale(Recs0(Events)[i][2], e)
             /\ \/ Recs(Events)[i][3] = Recs0(Events)[i][3]
                \/ Recs(Events)[i][3] = Rescale(Recs0(Events)[i][3], e)
        /\ \A i \in 1..Len(Recs0(TimingPoints)) :
             /\ Recs(TimingPoints)[i][1] = Rescale(Recs0(TimingPoints)[i][1], e)
             /\ \/ Recs(TimingPoints)[i][2] = Recs0(TimingPoints)[i][2]
                \/ PyEq(Recs(TimingPoints)[i][2],
                        DivRate(ToFloat(Recs0(TimingPoints)[i][2]), e))
        /\ \A i \in 1..Len(Recs0(HitObjects)) :
             /\ Recs(HitObjects)[i][3] = Rescale(Recs0(HitObjects)[i][3], e)
             /\ \/ Recs(HitObjects)[i][6] = Recs0(HitObjects)[i][6]
                \/ Recs(HitObjects)[i][6] = Rescale(Recs0(HitObjects)[i][6], e)

\* ApproachRate 10, OverallDifficulty 10 at rate 2: the reduction applies,
\* the effective rate is 4/3 and a time of 3 becomes 2, not round(3 / 2)
C2_Witness ==
    /\ pc = "returned"
    /\ In0(Difficulty, <<"ApproachRate">>).s = <<"1", "0">>
    /\ In0(Difficulty, <<"OverallDifficulty">>).s = <<"1", "0">>
    /\ orig_rate = IntV(2)
    /\ PyEq(rate, FloatV(4, 3))
    /\ In0(General, <<"PreviewTime">>).s = <<"3">>
    /\ Out(General, <<"PreviewTime">>) = IntV(2)
    /\ Out(Metadata, <<"Version">>).s = <<"Hard", " ", "2", "x">>

\* a stored difficulty value x lies in [0, 10]
InRange(x) == x.num >= 0 /\ x.num <= 10 * x.den

\* C3: for every input with integer ApproachRate and OverallDifficulty in
\* 0..10 and every rate > 0, the stored ApproachRate and OverallDifficulty
\* are each >= 0 and <= 10.
C3_DifficultyInRange ==
    (pc = "returned" /\ RateAbove(orig_rate, 0)) =>
        /\ InRange(Out(Difficulty, <<"ApproachRate">>))
        /\ InRange(Out(Difficulty, <<"OverallDifficulty">>))

\* the int round(v / r) for a field v holding an integer and a rate r # 0
RoundedQuotient(v, r) ==
    IntV(RoundHalfEven(StrToInt(v.s) * r.den * (IF r.num < 0 THEN -1 ELSE 1),
                       Abs(r.num)))

\* the event carries an end time: its first field reads 2 or Break
TaggedBreak(event) == event[1].s = <<"2">> \/ event[1].s = <<"Break">>

\* bit 0x08 of a hit object's type
SpinnerBit(type) == (type \div 8) % 2 = 1

\* the integers of a comma-separated list
IntsOf(v) == LET parts == Split(PyStr(v), <<",">>)
             IN  [i \in 1..Len(parts) |-> StrToInt(parts[i])]

\* every time stamp of the file as <<input, output>>
TimePairs ==
    { <<ToInt(In0(General, k)), ToInt(Out(General, k))>> :
        k \in {<<"AudioLeadIn">>, <<"PreviewTime">>} }
    \cup (IF HasKey(d0, Editor, <<"Bookmarks">>)
          THEN { <<IntsOf(In0(Editor, <<"Bookmarks">>))[i],
                   IntsOf(Out(Editor, <<"Bookmarks">>))[i]>> :
                   i \in 1..Len(IntsOf(In0(Editor, <<"Bookmarks">>))) }
          ELSE {})
    \cup { <<ToInt(Recs0(Events)[i][2]), ToInt(Recs(Events)[i][2])>> :
             i \in 1..Len(Recs0(Events)) }
    \cup { <<ToInt(Recs0(Events)[i][3]), ToInt(Recs(Events)[i][3])>> :
             i \in {j \in 1..Len(Recs0(Events)) : TaggedBreak(Recs0(Events)[j])} }
    \cup { <<ToInt(Recs0(TimingPoints)[i][1]), ToInt(Recs(TimingPoints)[i][1])>> :
             i \in 1..Len(Recs0(TimingPoints)) }
    \cup { <<ToInt(Recs0(HitObjects)[i][3]), ToInt(Recs(HitObjects)[i][3])>> :
             i \in 1..Len(Recs0(HitObjects)) }
    \cup { <<ToInt(Recs0(HitObjects)[i][6]), ToInt(Recs(HitObjects)[i][6])>> :
             i \in {j \in 1..Len(Recs0(HitObjects)) :
                       SpinnerBit(ToInt(Recs0(HitObjects)[j][4]))} }

\* C4 as stated: for a requested rate > 1 every time stamp written is <= the
\* input time stamp, and for a requested rate between 0 and 1 it is >= the
\* input, negative time stamps and the compensating reduction included.
C4_MonotoneInRequestedRate ==
    pc = "returned" =>
        /\ RateAbove(orig_rate, 1) => \A p \in TimePairs : p[2] <= p[1]
        /\ (RateAbove(orig_rate, 0) /\ RateBelow(orig_rate, 1)) =>
             \A p \in TimePairs : p[2] >= p[1]

\* C4 as amended: the comparison follows the effective rate, and only time
\* stamps >= 0 shrink (grow) in value; a negative one moves the other way.
\* For an effective rate > 1 every output lies between 0 and its input; for
\* an effective rate between 0 and 1 every input lies between 0 and its
\* output.
C4_MonotoneInEffectiveRate ==
    pc = "returned" =>
      \A e \in {ClaimedEffectiveRate} :
        /\ RateAbove(e, 1) =>
             \A p \in TimePairs :
                IF p[1] >= 0 THEN 0 <= p[2] /\ p[2] <= p[1]
                ELSE p[1] <= p[2] /\ p[2] <= 0
        /\ (RateAbove(e, 0) /\ RateBelow(e, 1)) =>
             \A p \in TimePairs :
                IF p[1] >= 0 THEN p[2] >= p[1] ELSE p[2] <= p[1]

\* a requested rate above 1 that the reduction brings below 1, on a file
\* with a negative PreviewTime and time stamps that grew
C4_Witness ==
    /\ pc = "returned"
    /\ RateAbove(orig_rate, 1)
    /\ RateBelow(ClaimedEffectiveRate, 1)
    /\ ToInt(In0(General, <<"PreviewTime">>)) < 0
    /\ \E p \in TimePairs : p[1] > 0 /\ p[2] > p[1]
    /\ \E p \in TimePairs : p[1] < 0 /\ p[2] < p[1]

\* C5: for an Events record whose field 0 is 2 or Break both field 1 and
\* field 2 become round(value / effective rate); for any other record only
\* field 1 changes and field 2 stays as it was.
C5_BreakEndRescaled ==
    pc = "returned" =>
      \A i \in 1..Len(Recs0(Events)) :
        /\ Recs(Events)[i][2] = RoundedQuotient(Recs0(Events)[i][2], rate)
        /\ Recs(Events)[i][3]
             = IF TaggedBreak(Recs0(Events)[i])
               THEN RoundedQuotient(Recs0(Events)[i][3], rate)
               ELSE Recs0(Events)[i][3]

\* C6: every HitObjects record keeps its length and its fields, except that
\* field 2 becomes round(value / effective rate) and, if and only if bit
\* 0x08 of the type in field 3 is set, field 5 does too.
C6_HitObjectFields ==
    pc = "returned" =>
      /\ Len(Recs(HitObjects)) = Len(Recs0(HitObjects))
      /\ \A i \in 1..Len(Recs0(HitObjects)) :
           LET old == Recs0(HitObjects)[i]
               new == Recs(HitObjects)[i]
           IN  /\ Len(new) = Len(old)
               /\ \A j \in 1..Len(old) :
                    new[j] = IF j = 3 \/ (j = 6 /\ SpinnerBit(StrToInt(old[4].s)))
                             THEN RoundedQuotient(old[j], rate)
                             ELSE old[j]

\* a transform that moved the end of a spinner and left field 5 of a circle
\* whose type has bit 0x04 set
C6_Witness ==
    /\ pc = "returned"
    /\ \E i \in 1..Len(Recs0(HitObjects)) :
         /\ SpinnerBit(ToInt(Recs0(HitObjects)[i][4]))
         /\ Recs(HitObjects)[i][6].t = "int"
         /\ Recs(HitObjects)[i][6].num # ToInt(Recs0(HitObjects)[i][6])
    /\ \E i \in 1..Len(Recs0(HitObjects)) :
         /\ ToInt(Recs0(HitObjects)[i][4]) = 5
         /\ Recs(HitObjects)[i][6] = S(777)
         /\ Recs(HitObjects)[i][3].t = "int"

\* the keys the transform needs
RequiredKeys ==
    { <<Metadata, <<"Version">>>>, <<Difficulty, <<"ApproachRate">>>>,
      <<Difficulty, <<"OverallDifficulty">>>>, <<General, <<"AudioLeadIn">>>>,
      <<General, <<"PreviewTime">>>>, <<General, <<"AudioFilename">>>> }

\* C9: a transform called with a rate <= 0, or on a file lacking a required
\* key, ends in an error; and whenever it ends in an error the dictionary is
\* as it was before the call and no audio job has been issued.
C9_ErrorsLeaveNoTrace ==
    pc # "parsed" =>
        /\ ~RateAbove(orig_rate, 0) => pc = "raised"
        /\ (\E k \in RequiredKeys : ~HasKey(d0, k[1], k[2])) => pc = "raised"
        /\ pc = "raised" => (d = d0 /\ audio_jobs = <<>>)

-----------------------------------------------------------------------------
(* The claims about convert_file_to_dict, checked under SpecParse.         *)

\* the lines read that are not comments
NonCommentRead == SelectSeq(read, LAMBDA raw : ~StartsWith(Strip(raw), <<"/", "/">>))

\* the loop awaits a header exactly if no line other than a comment has been
\* read or the last such line was blank
AwaitingHeaderIffBlank ==
    pc \in {"reading", "returned"} =>
        (~is_in_section <=>
            \/ NonCommentRead = <<>>
            \/ Strip(NonCommentRead[Len(NonCommentRead)]) = <<>>)

\* reading a comment line changes nothing of the parser
CommentStep ==
    (/\ pc = "reading"
     /\ Len(read') = Len(read) + 1
     /\ StartsWith(Strip(read'[Len(read')]), <<"/", "/">>))
    => (/\ pc' = "reading"
        /\ UNCHANGED <<is_in_section, current_header, d>>)

\* C10: the parser awaits a header if and only if no non-comment line has
\* been read yet or the most recent non-comment line was empty after
\* stripping; a line starting with // never changes the parser state and
\* never adds a section, key or record.
C10_CommentsAreInert == []AwaitingHeaderIffBlank /\ [][CommentStep]_vars

\* a comment read while a header is awaited, and one inside a section that
\* the next data line still belongs to
C10_Witness ==
    /\ pc = "reading"
    /\ read = << <<" ", "/", "/", "c", "\n">>, <<"[General]", "\n">>,
                 <<" ", "/", "/", "c", "\n">>, <<"k", ":", " ", "v", "\n">> >>
    /\ is_in_section
    /\ d = << <<General, [isList |-> FALSE, items |-> << <<<<"k">>, W("v")>> >>]>> >>

RecognizedHeaders ==
    { General, Editor, Metadata, Difficulty, Events, TimingPoints, Colours,
      HitObjects }

\* C8: a line read where a header is awaited that is none of the eight
\* recognized headers makes the parse fail; it never becomes a section of
\* the dictionary.
C8_UnknownHeaderRejected ==
    pc \in {"reading", "returned"} =>
        \A i \in 1..Len(d) : d[i][1] \in RecognizedHeaders

-----------------------------------------------------------------------------
(* The claim about reading a written file back, checked under              *)
(* SpecRoundTrip.                                                          *)

\* C7: every text the serializer emits parses without an error, and
\* serializing the parsed dictionary reproduces the text.
C7_RoundTrip ==
    /\ pc # "reraised"
    /\ pc = "rewritten" => out_text = src_text

=============================================================================
